---- MODULE Spec2Model ----
(***************************************************************************)
(* Model of src/src/value.rs: the JsonValue tagged union and its           *)
(* navigation / mutation operations.                                        *)
(*                                                                          *)
(* A JsonValue is a record [tag, val].  The payload of an Object is the     *)
(* BTreeMap, modelled as the key-sorted sequence of its entries; the        *)
(* payload of an Array is the Vec, modelled as a sequence.  Number payloads *)
(* are finite, non-NaN f64 values that are exactly representable (small     *)
(* integers).                                                               *)
(***************************************************************************)
EXTENDS Integers, Sequences, FiniteSets, TLC

\* ---------------------------------------------------------------- bounds
MaxLen == 3

\* ------------------------------------------------------- the enum (l.6-13)
Variants == {"String", "Number", "Boolean", "Null", "Object", "Array"}

String(s)  == [tag |-> "String",  val |-> s]
Number(n)  == [tag |-> "Number",  val |-> n]
Boolean(b) == [tag |-> "Boolean", val |-> b]
Null       == [tag |-> "Null"]
Object(m)  == [tag |-> "Object",  val |-> m]
Array(v)   == [tag |-> "Array",   val |-> v]

\* static NULL: JsonValue = JsonValue::Null;
NULL == Null

\* ----------------------------------------------------- results and errors
Ok(v)  == [ok |-> TRUE,  val |-> v]
Err(e) == [ok |-> FALSE, err |-> e]

wrong_type(expected) == [kind |-> "WrongType", expected |-> expected]
undefined(key)       == [kind |-> "Undefined", key |-> key]
ArrayIndexOutOfBounds == [kind |-> "ArrayIndexOutOfBounds"]

Panic == [panic |-> TRUE]
IsPanic(r) == "panic" \in DOMAIN r

\* Result::unwrap: the payload of Ok, a panic on Err.
unwrap(res) == IF res.ok THEN res.val ELSE Panic

\* Result::unwrap_or: the payload of Ok, the default on Err.
unwrap_or(res, default) == IF res.ok THEN res.val ELSE default

\* A reference into a value: where it points and what it points at.
EntryRef(key, v)  == [in |-> "entry", key |-> key, deref |-> v]
ElemRef(index, v) == [in |-> "elem", index |-> index, deref |-> v]
StaticRef(v)      == [in |-> "static", deref |-> v]

\* ---------------------------------------------------- keys and BTreeMap
\* The keys used, in their String ordering.
KeyOrder == <<"a", "k", "x">>
Keys == {KeyOrder[i] : i \in 1..Len(KeyOrder)}
Rank(key) == CHOOSE i \in 1..Len(KeyOrder) : KeyOrder[i] = key

Entry(key, v) == [key |-> key, value |-> v]

\* BTreeMap::new
BTreeNew == <<>>

\* Positions of the entries stored under key.
Slots(btree, key) == {i \in 1..Len(btree) : btree[i].key = key}

\* BTreeMap::contains_key
contains_key(btree, key) == Slots(btree, key) # {}

\* BTreeMap::get / get_mut: Some(value) or None
Some(v) == [some |-> TRUE, value |-> v]
None    == [some |-> FALSE]

btree_get(btree, key) ==
    IF Slots(btree, key) = {} THEN None
    ELSE LET i == CHOOSE j \in Slots(btree, key) :
                      \A l \in Slots(btree, key) : j <= l
         IN  Some(btree[i].value)

\* insert that keeps the old value of an existing key.
insert_keep_old(btree, key, v) ==
    IF contains_key(btree, key)
    THEN btree
    ELSE SelectSeq(btree, LAMBDA e : Rank(e.key) < Rank(key))
         \o <<Entry(key, v)>>
         \o SelectSeq(btree, LAMBDA e : Rank(e.key) > Rank(key))

\* BTreeMap::insert: replace the value of an existing key, otherwise add the
\* entry at its position in key order.
insert(btree, key, v) ==
    IF contains_key(btree, key)
    THEN [i \in 1..Len(btree) |->
             IF btree[i].key = key THEN Entry(key, v) ELSE btree[i]]
    ELSE SelectSeq(btree, LAMBDA e : Rank(e.key) < Rank(key))
         \o <<Entry(key, v)>>
         \o SelectSeq(btree, LAMBDA e : Rank(e.key) > Rank(key))

\* ------------------------------------------------------------ constructors
new_object == Object(BTreeNew)
new_array  == Array(<<>>)

\* ------------------------------------------------- Into<JsonValue> (4.1)
Native(ty, v) == [native |-> ty, v |-> v]
IsNative(x) == "native" \in DOMAIN x

into(x) ==
    IF ~IsNative(x) THEN x
    ELSE CASE x.native = "&str" -> String(x.v)
           [] x.native = "i32"  -> Number(x.v)
           [] x.native = "bool" -> Boolean(x.v)

\* ------------------------------------------------ predicates and coercion
is_string(self)  == self.tag = "String"
is_number(self)  == self.tag = "Number"
is_boolean(self) == self.tag = "Boolean"
is_null(self)    == self.tag = "Null"
is_object(self)  == self.tag = "Object"
is_array(self)   == self.tag = "Array"

is_true(self)  == IF self.tag = "Boolean" THEN self.val = TRUE ELSE FALSE
is_false(self) == IF self.tag = "Boolean" THEN self.val = FALSE ELSE FALSE

is(self, other) == self = into(other)

as_string(self) ==
    IF self.tag = "String" THEN Ok(self.val) ELSE Err(wrong_type("String"))

\* as_number that also accepts a Boolean.
as_number_lenient(self) ==
    IF self.tag \in {"Number", "Boolean"}
    THEN Ok(self.val) ELSE Err(wrong_type("Number"))

as_number(self) ==
    IF self.tag = "Number" THEN Ok(self.val) ELSE Err(wrong_type("Number"))

as_boolean(self) ==
    IF self.tag = "Boolean" THEN Ok(self.val) ELSE Err(wrong_type("Boolean"))

\* The coercions JsonValue defines.
Coercions == {"String", "Number", "Boolean"}

\* ---------------------------------------------------------- object access
\* Each mutating operation yields the new self and the returned value.
Out(self, ret) == [self |-> self, ret |-> ret]

\* put that turns a non-Object into an Object holding the entry.
put_vivify(self, key, value) ==
    IF self.tag = "Object"
    THEN Out(Object(insert(self.val, key, into(value))), Ok(<<>>))
    ELSE Out(Object(<<Entry(key, into(value))>>), Ok(<<>>))

\* put that adds the entry without looking for the key.
put_duplicate(self, key, value) ==
    IF self.tag = "Object"
    THEN Out(Object(<<Entry(key, into(value))>> \o self.val), Ok(<<>>))
    ELSE Out(self, Err(wrong_type("Object")))

put(self, key, value) ==
    IF self.tag = "Object"
    THEN Out(Object(insert(self.val, key, into(value))), Ok(<<>>))
    ELSE Out(self, Err(wrong_type("Object")))

\* get that reports a present Null as a missing key.
get_null_missing(self, key) ==
    IF self.tag = "Object"
    THEN LET found == btree_get(self.val, key)
         IN  IF found.some /\ found.value # Null
             THEN Ok(EntryRef(key, found.value))
             ELSE Err(undefined(key))
    ELSE Err(wrong_type("Object"))

get(self, key) ==
    IF self.tag = "Object"
    THEN LET found == btree_get(self.val, key)
         IN  IF found.some THEN Ok(EntryRef(key, found.value))
             ELSE Err(undefined(key))
    ELSE Err(wrong_type("Object"))

get_mut(self, key) ==
    IF self.tag = "Object"
    THEN LET found == btree_get(self.val, key)
         IN  IF found.some THEN Ok(EntryRef(key, found.value))
             ELSE Err(undefined(key))
    ELSE Err(wrong_type("Object"))

\* with that resets the entry to Null even when the key is present.
with_reset(self, key) ==
    IF self.tag = "Object"
    THEN LET btree == insert(self.val, key, Null)
             found == btree_get(btree, key)
         IN  Out(Object(btree),
                 IF found.some THEN EntryRef(key, found.value) ELSE Panic)
    ELSE LET fresh == new_object
             done  == put(fresh, key, Null)
         IN  IF ~done.ret.ok THEN Out(done.self, Panic)
             ELSE Out(done.self, unwrap(get_mut(done.self, key)))

with(self, key) ==
    IF self.tag = "Object"
    THEN LET btree == IF ~contains_key(self.val, key)
                      THEN insert(self.val, key, Null)
                      ELSE self.val
             found == btree_get(btree, key)
         IN  Out(Object(btree),
                 IF found.some THEN EntryRef(key, found.value) ELSE Panic)
    ELSE LET fresh == new_object
             done  == put(fresh, key, Null)
         IN  IF ~done.ret.ok THEN Out(done.self, Panic)
             ELSE Out(done.self, unwrap(get_mut(done.self, key)))

\* ----------------------------------------------------------- array access
\* push that adds the value at the front.
push_front(self, value) ==
    IF self.tag = "Array"
    THEN Out(Array(<<into(value)>> \o self.val), Ok(<<>>))
    ELSE Out(self, Err(wrong_type("Array")))

\* push that turns a non-Array into an Array holding the value.
push_vivify(self, value) ==
    IF self.tag = "Array"
    THEN Out(Array(Append(self.val, into(value))), Ok(<<>>))
    ELSE Out(Array(<<into(value)>>), Ok(<<>>))

push(self, value) ==
    IF self.tag = "Array"
    THEN Out(Array(Append(self.val, into(value))), Ok(<<>>))
    ELSE Out(self, Err(wrong_type("Array")))

\* index is 0-based; the sequence is 1-based.
at(self, index) ==
    IF self.tag = "Array"
    THEN IF index < Len(self.val)
         THEN Ok(ElemRef(index, self.val[index + 1]))
         ELSE Err(ArrayIndexOutOfBounds)
    ELSE Err(wrong_type("Array"))

\* at_mut whose bound check excludes the last element.
at_mut_short(self, index) ==
    IF self.tag = "Array"
    THEN IF index + 1 < Len(self.val)
         THEN Ok(ElemRef(index, self.val[index + 1]))
         ELSE Err(ArrayIndexOutOfBounds)
    ELSE Err(wrong_type("Array"))

at_mut(self, index) ==
    IF self.tag = "Array"
    THEN IF index < Len(self.val)
         THEN Ok(ElemRef(index, self.val[index + 1]))
         ELSE Err(ArrayIndexOutOfBounds)
    ELSE Err(wrong_type("Array"))

\* Index<usize> that unwraps the result of at.
index_usize_unwrap(self, index) == unwrap(at(self, index))

\* impl Index<usize> / impl Index<&str>
index_usize(self, index) == unwrap_or(at(self, index), StaticRef(NULL))
index_str(self, key)     == unwrap_or(get(self, key), StaticRef(NULL))

\* ------------------------------------------------------------------ state
\* self: the JsonValue operated on.  call: the last operation and its
\* arguments.  pre: self when that operation was entered.  ret: what the
\* operation returned.
VARIABLES self, call, pre, ret
vars == <<self, call, pre, ret>>

\* Values a caller constructs directly, one per variant.
InitValues ==
    <<new_object, new_array, String("s"), Number(5), Boolean(TRUE), Null>>

\* Arguments handed to put / push / is: native scalars and JsonValues.
ArgValues ==
    << Native("&str", "y"), Native("i32", 2), Native("bool", TRUE),
       Null,
       Array(<<Number(1), Null>>),
       Object(<<Entry("a", String("x"))>>) >>
Args == 1..Len(ArgValues)

Indices == 0..(MaxLen + 1)

Init ==
    /\ \E n \in 1..Len(InitValues) : self = InitValues[n]
    /\ call = [op |-> "new"]
    /\ pre = self
    /\ ret = self

\* A call that may change self.
Mutate(c, out) ==
    /\ call' = c
    /\ pre' = self
    /\ self' = out.self
    /\ ret' = out.ret

\* A call through a shared reference.
Read(c, r) ==
    /\ call' = c
    /\ pre' = self
    /\ self' = self
    /\ ret' = r

Put ==
    \E key \in Keys, n \in Args :
        Mutate([op |-> "put", key |-> key, value |-> ArgValues[n]],
               put(self, key, ArgValues[n]))

Get ==
    \E key \in Keys : Read([op |-> "get", key |-> key], get(self, key))

GetMut ==
    \E key \in Keys :
        Read([op |-> "get_mut", key |-> key], get_mut(self, key))

With ==
    \E key \in Keys :
        Mutate([op |-> "with", key |-> key], with(self, key))

Push ==
    \E n \in Args :
        /\ self.tag = "Array" => Len(self.val) < MaxLen
        /\ Mutate([op |-> "push", value |-> ArgValues[n]],
                  push(self, ArgValues[n]))

At ==
    \E index \in Indices :
        Read([op |-> "at", index |-> index], at(self, index))

AtMut ==
    \E index \in Indices :
        Read([op |-> "at_mut", index |-> index], at_mut(self, index))

IndexUsize ==
    \E index \in Indices :
        Read([op |-> "index_usize", index |-> index],
             index_usize(self, index))

IndexStr ==
    \E key \in Keys :
        Read([op |-> "index_str", key |-> key], index_str(self, key))

IsString  == Read([op |-> "is_string"],  is_string(self))
IsNumber  == Read([op |-> "is_number"],  is_number(self))
IsBoolean == Read([op |-> "is_boolean"], is_boolean(self))
IsNull    == Read([op |-> "is_null"],    is_null(self))
IsObject  == Read([op |-> "is_object"],  is_object(self))
IsArray   == Read([op |-> "is_array"],   is_array(self))
IsTrue    == Read([op |-> "is_true"],    is_true(self))
IsFalse   == Read([op |-> "is_false"],   is_false(self))
AsString  == Read([op |-> "as_string"],  as_string(self))
AsNumber  == Read([op |-> "as_number"],  as_number(self))
AsBoolean == Read([op |-> "as_boolean"], as_boolean(self))

Is ==
    \E n \in Args :
        Read([op |-> "is", value |-> ArgValues[n]], is(self, ArgValues[n]))

Next ==
    \/ Put \/ Get \/ GetMut \/ With
    \/ Push \/ At \/ AtMut
    \/ IndexUsize \/ IndexStr
    \/ IsString \/ IsNumber \/ IsBoolean \/ IsNull \/ IsObject \/ IsArray
    \/ IsTrue \/ IsFalse
    \/ AsString \/ AsNumber \/ AsBoolean
    \/ Is

Spec == Init /\ [][Next]_vars

\* ------------------------------------------------------------ well-formed
\* The entries of a BTreeMap are in strictly increasing key order.
Sorted(btree) ==
    \A i, j \in 1..Len(btree) :
        i < j => Rank(btree[i].key) < Rank(btree[j].key)

SelfWellFormed == self.tag \in Variants /\ (self.tag = "Object" => Sorted(self.val))

\* ----------------------------------------------------------------- claims
IsValue(v) == "tag" \in DOMAIN v /\ v.tag \in Variants

\* Number of entries stored under key.
Count(btree, key) == Cardinality(Slots(btree, key))

\* Every entry under a key other than key is the same in both maps.
OthersSame(before, after, key) ==
    \A other \in Keys \ {key} :
        /\ Count(after, other) = Count(before, other)
        /\ btree_get(after, other) = btree_get(before, other)

\* C1: after a put(k, v) that returned Ok, get(k) returns Ok with a value
\* structurally equal to v (as converted into a JsonValue).
C1_PutGetRoundTrip ==
    (call.op = "put" /\ ret.ok) =>
        LET r == get(self, call.key)
        IN  r.ok /\ r.val.deref = into(call.value)

\* The put overwrote an entry that held a different value.
C1_Witness ==
    /\ call.op = "put" /\ ret.ok
    /\ contains_key(pre.val, call.key)
    /\ btree_get(pre.val, call.key).value # into(call.value)
    /\ get(self, call.key).ok

\* C2: a put of key k on an Object leaves exactly one entry for k, holding
\* the value put; the number of entries grows by one only if k was absent;
\* every entry under another key is unchanged.  A second put of k with any
\* value v2 again leaves exactly one entry, holding v2, and the same number
\* of entries.
C2_PutOverwrite ==
    (call.op = "put" /\ pre.tag = "Object") =>
        /\ self.tag = "Object"
        /\ Count(self.val, call.key) = 1
        /\ btree_get(self.val, call.key) = Some(into(call.value))
        /\ Len(self.val) = Len(pre.val)
                           + (IF contains_key(pre.val, call.key) THEN 0 ELSE 1)
        /\ OthersSame(pre.val, self.val, call.key)
        /\ \A n \in Args :
              LET second == put(self, call.key, ArgValues[n]).self
              IN  /\ Count(second.val, call.key) = 1
                  /\ btree_get(second.val, call.key) = Some(into(ArgValues[n]))
                  /\ Len(second.val) = Len(self.val)
                  /\ OthersSame(pre.val, second.val, call.key)

\* The key was put a second time, with a different value, next to another
\* entry.
C2_Witness ==
    /\ call.op = "put" /\ pre.tag = "Object"
    /\ contains_key(pre.val, call.key)
    /\ btree_get(pre.val, call.key) # Some(into(call.value))
    /\ Len(self.val) = 2
    /\ Len(pre.val) = 2

\* C3: a push on an Array of length n returns Ok, makes the length n+1,
\* puts the value at index n and leaves every index below n unchanged.
C3_PushOrder ==
    (call.op = "push" /\ pre.tag = "Array") =>
        LET n == Len(pre.val)
        IN  /\ ret.ok
            /\ self.tag = "Array"
            /\ Len(self.val) = n + 1
            /\ at(self, n) = Ok(ElemRef(n, into(call.value)))
            /\ \A i \in 0..(n - 1) : at(self, i) = at(pre, i)

\* Three different values were pushed onto an empty array.
C3_Witness ==
    /\ call.op = "push" /\ pre.tag = "Array"
    /\ Len(self.val) = 3
    /\ at(self, 0).val.deref = into(ArgValues[1])
    /\ at(self, 1).val.deref = into(ArgValues[2])
    /\ at(self, 2).val.deref = into(ArgValues[3])

\* C4: on an Array of length n, at(i) and at_mut(i) return the i-th element
\* iff i < n and fail with ArrayIndexOutOfBounds for i >= n; on a non-Array
\* they fail with WrongType("Array").
C4_ArrayBounds ==
    (call.op \in {"at", "at_mut"}) =>
        IF pre.tag = "Array"
        THEN /\ ret.ok <=> call.index < Len(pre.val)
             /\ ret.ok => ret.val = ElemRef(call.index, pre.val[call.index + 1])
             /\ ~ret.ok => ret.err = ArrayIndexOutOfBounds
        ELSE ret = Err(wrong_type("Array"))

\* The last element of a full array was read through at_mut.
C4_Witness ==
    /\ call.op = "at_mut" /\ pre.tag = "Array"
    /\ Len(pre.val) = MaxLen
    /\ call.index = Len(pre.val) - 1
    /\ ret.ok

\* C5: on an Object, get(k) and get_mut(k) fail with Undefined(k) iff there
\* is no entry for k; a present Null is returned as Ok(Null); on a
\* non-Object they fail with WrongType("Object").
C5_MissingVsNull ==
    (call.op \in {"get", "get_mut"}) =>
        IF pre.tag = "Object"
        THEN /\ ~ret.ok <=> ~contains_key(pre.val, call.key)
             /\ ~ret.ok => ret.err = undefined(call.key)
             /\ ret.ok => btree_get(pre.val, call.key) = Some(ret.val.deref)
             /\ btree_get(pre.val, call.key) = Some(Null)
                    => ret = Ok(EntryRef(call.key, Null))
        ELSE ret = Err(wrong_type("Object"))

\* A key holding Null was read next to a key that is missing.
C5_Witness ==
    /\ call.op = "get" /\ pre.tag = "Object"
    /\ ret.ok /\ ret.val.deref = Null
    /\ \E other \in Keys : ~get(pre, other).ok

\* C6: value[key] and value[index] always yield a value, never an error or
\* a panic: the one get / at returns when it succeeds, the Null constant
\* when it fails.
C6_IndexNeverFails ==
    /\ call.op = "index_str" =>
          LET r == get(pre, call.key)
          IN  /\ ~IsPanic(ret) /\ "ok" \notin DOMAIN ret
              /\ IsValue(ret.deref)
              /\ r.ok => ret = r.val
              /\ ~r.ok => ret = StaticRef(Null)
              /\ ret.deref = Null <=> (~r.ok \/ r.val.deref = Null)
    /\ call.op = "index_usize" =>
          LET r == at(pre, call.index)
          IN  /\ ~IsPanic(ret) /\ "ok" \notin DOMAIN ret
              /\ IsValue(ret.deref)
              /\ r.ok => ret = r.val
              /\ ~r.ok => ret = StaticRef(Null)
              /\ ret.deref = Null <=> (~r.ok \/ r.val.deref = Null)

\* An index past the end of a non-empty array was read.
C6_Witness ==
    /\ call.op = "index_usize" /\ pre.tag = "Array"
    /\ Len(pre.val) > 0
    /\ call.index >= Len(pre.val)
    /\ ret = StaticRef(Null)

\* C7: with(k) never fails and leaves an Object containing k.  A non-Object
\* becomes exactly Object{k: Null}; an Object lacking k gains k -> Null and
\* keeps its other entries; an Object holding k -> v is unchanged and the
\* handle refers to v; a second with(k) changes nothing.
C7_WithGetOrCreate ==
    (call.op = "with") =>
        /\ ~IsPanic(ret)
        /\ self.tag = "Object"
        /\ Count(self.val, call.key) = 1
        /\ ret = EntryRef(call.key, btree_get(self.val, call.key).value)
        /\ pre.tag # "Object" => self = Object(<<Entry(call.key, Null)>>)
        /\ (pre.tag = "Object" /\ ~contains_key(pre.val, call.key)) =>
              /\ btree_get(self.val, call.key) = Some(Null)
              /\ Len(self.val) = Len(pre.val) + 1
              /\ OthersSame(pre.val, self.val, call.key)
        /\ (pre.tag = "Object" /\ contains_key(pre.val, call.key)) =>
              /\ self = pre
              /\ ret.deref = btree_get(pre.val, call.key).value
        /\ with(self, call.key) = Out(self, ret)

\* with was called on an Object that held a non-Null value under the key.
C7_Witness ==
    /\ call.op = "with" /\ pre.tag = "Object"
    /\ contains_key(pre.val, call.key)
    /\ ret.deref # Null
    /\ Len(self.val) > 1

\* C8: put on a non-Object fails with WrongType("Object"), push on a
\* non-Array fails with WrongType("Array"), and self is left as it was.
C8_FailureNoEffect ==
    /\ (call.op = "put" /\ pre.tag # "Object") =>
          ret = Err(wrong_type("Object")) /\ self = pre
    /\ (call.op = "push" /\ pre.tag # "Array") =>
          ret = Err(wrong_type("Array")) /\ self = pre

\* put was called on a non-empty Array.
C8_Witness ==
    /\ call.op = "put" /\ pre.tag = "Array"
    /\ Len(pre.val) > 0
    /\ ~ret.ok

\* C9 as stated: no operation changes the variant tag of the value it is
\* called on.
C9_TagNeverChanges == self.tag = pre.tag

\* C9 amended: every operation other than with keeps the variant tag; with
\* keeps it on an Object and changes every other variant to Object.
C9_TagStableExceptWith ==
    /\ call.op # "with" => self.tag = pre.tag
    /\ call.op = "with" => self.tag = "Object"

\* A push on an Object failed and left the tag alone.
C9_Witness ==
    /\ call.op = "push" /\ pre.tag = "Object"
    /\ Len(pre.val) > 0
    /\ self.tag = "Object"

\* The predicate of each variant.
IsVariant(V, v) ==
    CASE V = "String"  -> is_string(v)
      [] V = "Number"  -> is_number(v)
      [] V = "Boolean" -> is_boolean(v)
      [] V = "Null"    -> is_null(v)
      [] V = "Object"  -> is_object(v)
      [] V = "Array"   -> is_array(v)

\* The last call was the coercion to V and agrees with the predicate of V:
\* Ok with the payload iff is_<V>, WrongType(V) otherwise.
CoercionMatches(V) ==
    /\ IsVariant(V, pre) => ret = Ok(pre.val)
    /\ ~IsVariant(V, pre) => ret = Err(wrong_type(V))

ExactlyOnePredicate ==
    Cardinality({V \in Variants : IsVariant(V, self)}) = 1

====
